---- MODULE Spec2Model ----
(***************************************************************************)
(* Session memory and streaming relay of the chatbot.                      *)
(*                                                                         *)
(* The repository has two entry points: web.py, a FastAPI server whose     *)
(* synchronous handlers and response generators run on a thread pool and   *)
(* share the module-level SESSIONS map and MAX_TURNS, and chat.py, a       *)
(* sequential command-line loop over one local conversation.  The variable *)
(* `program` says what is running: "web" is the server with requests       *)
(* arriving at any time, "serial" the server when each request arrives     *)
(* after the one before it has ended, "cli" the command-line loop; "trim"  *)
(* and "codec" apply the trim and the transcript functions to arguments.   *)
(*                                                                         *)
(* Strings are sequences of one-character strings.  Python lists are       *)
(* objects: `heap` holds every list the server allocated, and SESSIONS and *)
(* each handler's local `history` hold references (indexes) into it; a     *)
(* list nothing refers to any more is freed.                               *)
(***************************************************************************)
EXTENDS Integers, Sequences, FiniteSets, TLC

\* ------------------------------------------------------------- bounds
MaxReqs == 2        \* POST /chat requests that may overlap in one run
MaxChunks == 1      \* chunks of a stream when requests may overlap
MaxSerial == 4      \* POST /chat requests that come one at a time
MaxSerialChunks == 2 \* chunks of a stream otherwise
MaxTurnsIn == 1     \* largest capacity a caller asks for
MaxConvLen == 6     \* longest conversation handed to the trim on its own
MaxCap == 2         \* largest capacity handed to the trim on its own
MaxLines == 3       \* lines typed at the prompt of the command-line loop
MaxExports == 1     \* export requests in one run of the server
MaxContentLen == 4  \* longest content of a message that is saved
MaxTokens == 5      \* longest text that is loaded, in tokens

\* ------------------------------------------------------------- values
Sessions == {"A", "B"}
Reqs == 1..MaxReqs
SerialReqs == 1..MaxSerial
AllReqs == Reqs \cup SerialReqs
Server == {"web", "serial"}
None == 0

\* the message texts callers send: empty, blank, and one that needs stripping
InputMessages == { <<>>, <<" ">>, <<" ", "h">> }
\* the text fragments of a reply, in order; the delta of the k-th chunk of a
\* stream is None or "" (both falsy) or the k-th fragment
Fragments == <<"x", "y", "z", "w">>
Deltas(k) == { <<>>, <<Fragments[k]>> }
\* the capacities callers ask for
TurnsInputs == (0 - 1)..MaxTurnsIn

DefaultMaxTurns == 10
DefaultMaxMessages == 1 + 20

SystemText == <<"S">>
\* `turn` and `cleared` are not fields of the program's messages: `turn` names
\* the request that appended the message (0: nobody), so that two equal texts
\* stay apart, and `cleared` says that its session was cleared afterwards.
Msg(role, text, t) ==
    [role |-> role, content |-> text, turn |-> t, cleared |-> FALSE]
SYSTEM_MSG == Msg("system", SystemText, 0)
UserMsg(text, t) == Msg("user", text, t)
AssistantMsg(text, t) == Msg("assistant", text, t)

\* ------------------------------------------------------------- strings
\* the whitespace str.strip() removes
IsSpace(c) == c \in {" ", "\n", "\r", "\t"}

RECURSIVE LStrip(_)
LStrip(s) == IF s # <<>> /\ IsSpace(Head(s)) THEN LStrip(Tail(s)) ELSE s

RECURSIVE RStrip(_)
RStrip(s) ==
    IF s # <<>> /\ IsSpace(s[Len(s)]) THEN RStrip(SubSeq(s, 1, Len(s) - 1)) ELSE s

\* str.strip()
Strip(s) == RStrip(LStrip(s))

\* ------------------------------------------------------------- lists
Max(a, b) == IF a >= b THEN a ELSE b
Min(a, b) == IF a <= b THEN a ELSE b

\* Python's s[i:] : a negative i counts from the end and is clamped at the
\* start of the list; -0 is 0, the whole list.
PySliceFrom(s, i) ==
    LET start == IF i < 0 THEN Max(Len(s) + i, 0) ELSE Min(i, Len(s))
    IN  SubSeq(s, start + 1, Len(s))

\* "".join(ts)
RECURSIVE Flatten(_)
Flatten(ts) == IF ts = <<>> THEN <<>> ELSE Head(ts) \o Flatten(Tail(ts))

\* a trim that keeps one message too many
TrimmedListKeepsMax(h, mm) == <<h[1]>> \o PySliceFrom(h, 0 - mm)

\* [history[0]] + history[-(mm-1):]
TrimmedList(h, mm) == <<h[1]>> \o PySliceFrom(h, 0 - (mm - 1))

\* if len(history) > mm: history = [history[0]] + history[-(mm-1):]
Trim(h, mm) == IF Len(h) > mm THEN TrimmedList(h, mm) ELSE h

\* ------------------------------------------------------------- transcripts
Roles == {"system", "user", "assistant"}

LowerCase == <<"a", "b", "c", "d", "e", "f", "g", "h", "i", "j", "k", "l", "m",
               "n", "o", "p", "q", "r", "s", "t", "u", "v", "w", "x", "y", "z">>
UpperCase == <<"A", "B", "C", "D", "E", "F", "G", "H", "I", "J", "K", "L", "M",
               "N", "O", "P", "Q", "R", "S", "T", "U", "V", "W", "X", "Y", "Z">>

\* str.upper() and str.lower()
UpperChar(c) ==
    IF \E i \in 1..26 : LowerCase[i] = c
    THEN UpperCase[CHOOSE i \in 1..26 : LowerCase[i] = c] ELSE c
LowerChar(c) ==
    IF \E i \in 1..26 : UpperCase[i] = c
    THEN LowerCase[CHOOSE i \in 1..26 : UpperCase[i] = c] ELSE c
Upper(s) == [i \in 1..Len(s) |-> UpperChar(s[i])]
Lower(s) == [i \in 1..Len(s) |-> LowerChar(s[i])]

\* the characters of a role's name
RoleChars(r) ==
    CASE r = "system" -> <<"s", "y", "s", "t", "e", "m">>
      [] r = "user" -> <<"u", "s", "e", "r">>
      [] r = "assistant" -> <<"a", "s", "s", "i", "s", "t", "a", "n", "t">>

\* str.replace("\r", "")
RemoveCR(s) == SelectSeq(s, LAMBDA c : c # "\r")

\* "\n\n".join(lines)
RECURSIVE JoinBlank(_)
JoinBlank(lines) ==
    IF lines = <<>> THEN <<>>
    ELSE IF Len(lines) = 1 THEN lines[1]
    ELSE lines[1] \o <<"\n", "\n">> \o JoinBlank(Tail(lines))

\* a message loaded from a transcript (appended by no request)
LoadedMsg(role, content) == Msg(role, content, 0)

\* a text rendering with one line break between the messages
TextOfOnLines(msgs) ==
    LET text == JoinBlank([i \in 1..Len(msgs) |->
                             Upper(RoleChars(msgs[i].role)) \o <<":", " ">>
                                 \o RemoveCR(msgs[i].content)])
    IN  SelectSeq([i \in 1..Len(text) |->
                     IF i > 1 /\ text[i] = "\n" /\ text[i - 1] = "\n"
                     THEN "" ELSE text[i]],
                  LAMBDA c : c # "")

\* save_transcript, lines 18-25, and export_txt, lines 317-322:
\* "ROLE: content" for each message, joined by blank lines
TextOf(msgs) ==
    JoinBlank([i \in 1..Len(msgs) |->
                 Upper(RoleChars(msgs[i].role)) \o <<":", " ">>
                     \o RemoveCR(msgs[i].content)])

\* the first i with s[i] = s[i+1] = "\n", or 0
FirstBlank(s) ==
    LET at == {i \in 1..(Len(s) - 1) : s[i] = "\n" /\ s[i + 1] = "\n"}
    IN  IF at = {} THEN 0 ELSE CHOOSE i \in at : \A j \in at : i <= j

\* str.split("\n\n")
RECURSIVE SplitBlank(_)
SplitBlank(s) ==
    LET i == FirstBlank(s)
    IN  IF i = 0 THEN <<s>>
        ELSE <<SubSeq(s, 1, i - 1)>> \o SplitBlank(SubSeq(s, i + 2, Len(s)))

\* the first i with s[i] = ":", or 0
FirstColon(s) ==
    LET at == {i \in 1..Len(s) : s[i] = ":"}
    IN  IF at = {} THEN 0 ELSE CHOOSE i \in at : \A j \in at : i <= j

\* load_transcript, lines 38-46: the chunks between blank lines, stripped;
\* a chunk is kept when it has a ":", a known role before it and text after it
RECURSIVE ParseChunks(_)
ParseChunks(cs) ==
    IF cs = <<>> THEN <<>>
    ELSE LET chunk == Strip(Head(cs))
             k == FirstColon(chunk)
             role == Lower(Strip(SubSeq(chunk, 1, k - 1)))
             content == Strip(SubSeq(chunk, k + 1, Len(chunk)))
             kept == /\ chunk # <<>>
                     /\ k # 0
                     /\ \E r \in Roles : RoleChars(r) = role
                     /\ content # <<>>
         IN  (IF kept
              THEN <<LoadedMsg(CHOOSE r \in Roles : RoleChars(r) = role, content)>>
              ELSE <<>>) \o ParseChunks(Tail(cs))

\* a load that returns the kept chunks as they are
load_transcript_as_is(raw) == ParseChunks(SplitBlank(raw))

\* load_transcript, lines 38-51, of the text of a file that exists
load_transcript(raw) ==
    LET msgs == ParseChunks(SplitBlank(raw))
    IN  IF msgs = <<>> \/ msgs[1].role # "system"
        THEN <<LoadedMsg("system", SystemText)>> \o msgs
        ELSE msgs

\* export_json (web.py, line 310): the role and the content of each message
Clean(msgs) ==
    [i \in 1..Len(msgs) |-> [role |-> msgs[i].role, content |-> msgs[i].content]]

\* ------------------------------------------------------------- state
VARIABLES
    program,        \* "web" (web.py) or "cli" (chat.py)
    \* web.py
    SESSIONS,       \* session_id -> reference to its list, or None
    heap,           \* the lists that are referred to, by reference
    MAX_TURNS,      \* the global capacity
    pc,             \* where each POST /chat request is
    inp,            \* each request's body: session_id and message
    history,        \* each request's local `history` reference
    assistant_text, \* each request's accumulator
    chunks,         \* how many chunks each request's stream has delivered
    sent,           \* what each request's caller has been sent, in order
    gone,           \* whether each request's caller has disconnected
    exported,       \* the responses to the export requests, in order
    \* chat.py
    messages,       \* the conversation of the command-line loop
    MAX_MESSAGES,   \* its limit
    cli,            \* where the loop is: "prompt", "stream" or "exit"
    user,           \* the line the loop read last
    cliText,        \* its accumulator (assistant_text)
    cliChunks,      \* how many chunks its stream has delivered
    cliLine,        \* how many lines it has read at the prompt
    printed,        \* the deltas it printed in the turn
    file,           \* the text of the transcript file it uses, or NoFile
    jsonFile,       \* what the JSON file it exports to holds, or NoFile
    \* the trim on its own
    trimIn,         \* the conversation
    trimCap,        \* the capacity, in turns
    trimOut,        \* the result
    trimmed,        \* whether the trim has been applied
    \* the transcript codec on its own
    codecIn,        \* the conversation saved
    codecText,      \* the text of the file
    codecOut,       \* the conversation loaded
    codecStage      \* "conversation", "text" (a file is there) or "loaded"

webVars == <<SESSIONS, heap, MAX_TURNS, pc, inp, history, assistant_text,
             chunks, sent, gone, exported>>
cliVars == <<messages, MAX_MESSAGES, cli, user, cliText, cliChunks, cliLine,
             printed, file, jsonFile>>
trimVars == <<trimIn, trimCap, trimOut, trimmed>>
codecVars == <<codecIn, codecText, codecOut, codecStage>>
vars == <<program, webVars, cliVars, trimVars, codecVars>>

NoInput == [session_id |-> "A", message |-> <<>>]

\* the transcript file of a command-line run: missing, or one of these texts
NoFile == [exists |-> FALSE, holds |-> <<>>]
FileOf(content) == [exists |-> TRUE, holds |-> content]
CliFiles ==
    { NoFile,
      FileOf(<<"H", "i">>),
      FileOf(TextOf(<<LoadedMsg("system", <<"T">>),
                      LoadedMsg("user", <<"h">>)>>)),
      FileOf(TextOf(<<LoadedMsg("user", <<"h">>),
                      LoadedMsg("system", <<"T">>),
                      LoadedMsg("assistant", <<"x">>),
                      LoadedMsg("user", <<"h">>)>>)) }

InitServer ==
    /\ SESSIONS = [s \in Sessions |-> None]
    /\ heap = <<>>
        /\ pc = [t \in AllReqs |-> "idle"]
    /\ inp = [t \in AllReqs |-> NoInput]
    /\ history = [t \in AllReqs |-> None]
    /\ assistant_text = [t \in AllReqs |-> <<>>]
    /\ chunks = [t \in AllReqs |-> 0]
    /\ sent = [t \in AllReqs |-> <<>>]
    /\ gone = [t \in AllReqs |-> FALSE]
    /\ exported = <<>>

InitWeb ==
    /\ MAX_TURNS = DefaultMaxTurns
    /\ InitServer

InitLoop ==
    /\ messages = <<SYSTEM_MSG>>
    /\ MAX_MESSAGES = DefaultMaxMessages
    /\ cli = "prompt"
    /\ user = [cmd |-> "none"]
    /\ cliText = <<>>
    /\ cliChunks = 0
    /\ cliLine = 0
    /\ printed = <<>>
    /\ jsonFile = NoFile

InitCli ==
    /\ InitLoop
    /\ file \in (IF program = "cli" THEN CliFiles ELSE {NoFile})

InitTrim ==
    /\ trimIn = <<>>
    /\ trimCap = 1
    /\ trimOut = <<>>
    /\ trimmed = FALSE

InitCodec ==
    /\ codecIn = <<>>
    /\ codecText = <<>>
    /\ codecOut = <<>>
    /\ codecStage = "conversation"

Init ==
    /\ program \in {"web", "cli"}
    /\ InitWeb
    /\ InitCli
    /\ InitTrim
    /\ InitCodec

\* ------------------------------------------------------------- web.py
\* the conversation stored under a session id (empty when there is none)
Stored(s) == IF SESSIONS[s] = None THEN <<>> ELSE heap[SESSIONS[s]]

\* a limit with room for one turn more
max_messages_and_a_turn == 3 + 2 * MAX_TURNS

\* max_messages, lines 24-25
max_messages == 1 + 2 * MAX_TURNS

Running == {"create", "append", "stream", "yielded", "trim", "assign"}

\* how many chunks a stream delivers at most
ChunkLimit == IF program = "web" THEN MaxChunks ELSE MaxSerialChunks

\* Reference counting: the lists that SESSIONS or a running handler's
\* `history` refers to stay, in the order they were allocated; the others
\* are freed.
Collected(hp, sess, hist) ==
    LET refs == ({sess[s] : s \in Sessions} \cup {hist[t] : t \in AllReqs})
                    \ {None}
        new(i) == IF i = None THEN None ELSE Cardinality({j \in refs : j <= i})
        old(k) == CHOOSE i \in refs : new(i) = k
    IN  [heap |-> [k \in 1..Cardinality(refs) |-> hp[old(k)]],
         SESSIONS |-> [s \in Sessions |-> new(sess[s])],
         history |-> [t \in AllReqs |-> new(hist[t])]]

Install(hp, sess, hist) ==
    LET c == Collected(hp, sess, hist)
    IN  /\ heap' = c.heap
        /\ SESSIONS' = c.SESSIONS
        /\ history' = c.history

\* the generator of request t has ended (returned, raised or closed):
\* its locals are gone
Ended(t, how) ==
    /\ pc' = [pc EXCEPT ![t] = how]
    /\ assistant_text' = [assistant_text EXCEPT ![t] = <<>>]
    /\ chunks' = [chunks EXCEPT ![t] = 0]

\* chat, lines 246-251: strip the message, 400 when nothing is left;
\* otherwise history = SESSIONS.get(inp.session_id)
Request(t, body) ==
    /\ program \in Server
    /\ pc[t] = "idle"
    /\ \A u \in AllReqs : u < t => pc[u] # "idle"
    /\ inp' = [inp EXCEPT ![t] = body]
    /\ IF Strip(body.message) = <<>>
       THEN /\ pc' = [pc EXCEPT ![t] = "rejected"]
            /\ sent' = [sent EXCEPT ![t] = <<[status |-> 400]>>]
            /\ history' = history
       ELSE /\ history' = [history EXCEPT ![t] = SESSIONS[body.session_id]]
            /\ pc' = [pc EXCEPT ![t] =
                        IF SESSIONS[body.session_id] = None
                        THEN "create" ELSE "append"]
            /\ sent' = sent
    /\ UNCHANGED <<program, exported, gone, SESSIONS, heap, MAX_TURNS,
                   assistant_text, chunks, cliVars, trimVars, codecVars>>

\* chat, lines 252-254: a new list, installed under the session id
CreateSession(t) ==
    /\ pc[t] = "create"
    /\ Install(Append(heap, <<SYSTEM_MSG>>),
               [SESSIONS EXCEPT ![inp[t].session_id] = Len(heap) + 1],
               [history EXCEPT ![t] = Len(heap) + 1])
    /\ pc' = [pc EXCEPT ![t] = "append"]
    /\ UNCHANGED <<program, exported, gone, MAX_TURNS, inp, assistant_text,
                   chunks, sent, cliVars, trimVars, codecVars>>

\* chat, line 257: history.append(user message); the response, whose body is
\* the generator sse_stream, is returned
AppendUser(t) ==
    /\ pc[t] = "append"
    /\ heap' = [heap EXCEPT ![history[t]] =
                  Append(@, UserMsg(Strip(inp[t].message), t))]
    /\ pc' = [pc EXCEPT ![t] = "stream"]
    /\ UNCHANGED <<program, exported, gone, SESSIONS, MAX_TURNS, inp, history,
                   assistant_text, chunks, sent, cliVars, trimVars,
                   codecVars>>

\* sse_stream, lines 260-271: the completion service raises, when the request
\* is made or while the stream is read; the generator ends with the exception
StreamFail(t) ==
    /\ pc[t] = "stream"
    /\ Ended(t, "aborted")
    /\ Install(heap, SESSIONS, [history EXCEPT ![t] = None])
    /\ UNCHANGED <<program, exported, gone, MAX_TURNS, inp, sent, cliVars,
                   trimVars, codecVars>>

\* a relay that puts the newest fragment first
NextChunkNewestFirst(t, delta) ==
    /\ pc[t] = "stream"
    /\ ~gone[t]
    /\ chunks[t] < ChunkLimit
    /\ chunks' = [chunks EXCEPT ![t] = @ + 1]
    /\ IF delta # <<>>
       THEN /\ assistant_text' = [assistant_text EXCEPT ![t] = delta \o @]
            /\ sent' = [sent EXCEPT ![t] = <<[delta |-> delta]>> \o @]
            /\ pc' = [pc EXCEPT ![t] = "yielded"]
       ELSE UNCHANGED <<assistant_text, sent, pc>>
    /\ UNCHANGED <<program, exported, gone, SESSIONS, heap, MAX_TURNS, inp,
                   history, cliVars, trimVars, codecVars>>

\* sse_stream, lines 267-271: one chunk; a non-empty delta is accumulated and
\* yielded to the caller, and the generator is suspended at the yield
NextChunk(t, delta) ==
    /\ pc[t] = "stream"
    /\ ~gone[t]
    /\ chunks[t] < ChunkLimit
    /\ chunks' = [chunks EXCEPT ![t] = @ + 1]
    /\ IF delta # <<>>
       THEN /\ assistant_text' = [assistant_text EXCEPT ![t] = @ \o delta]
            /\ sent' = [sent EXCEPT ![t] = Append(@, [delta |-> delta])]
            /\ pc' = [pc EXCEPT ![t] = "yielded"]
       ELSE UNCHANGED <<assistant_text, sent, pc>>
    /\ UNCHANGED <<program, exported, gone, SESSIONS, heap, MAX_TURNS, inp,
                   history, cliVars, trimVars, codecVars>>

\* sse_stream, lines 267-271, after the caller has gone: a chunk with an empty
\* delta is skipped; at the yield of a non-empty one nobody takes the frame
\* and the generator is closed
LostChunk(t, delta) ==
    /\ pc[t] = "stream"
    /\ gone[t]
    /\ chunks[t] < ChunkLimit
    /\ IF delta # <<>>
       THEN /\ Ended(t, "aborted")
            /\ Install(heap, SESSIONS, [history EXCEPT ![t] = None])
       ELSE /\ chunks' = [chunks EXCEPT ![t] = @ + 1]
            /\ UNCHANGED <<pc, assistant_text, heap, SESSIONS, history>>
    /\ UNCHANGED <<program, exported, gone, MAX_TURNS, inp, sent, cliVars,
                   trimVars, codecVars>>

\* the caller takes the frame and the generator is resumed
Resume(t) ==
    /\ pc[t] = "yielded"
    /\ pc' = [pc EXCEPT ![t] = "stream"]
    /\ UNCHANGED <<program, exported, gone, SESSIONS, heap, MAX_TURNS, inp,
                   history, assistant_text, chunks, sent, cliVars, trimVars,
                   codecVars>>

\* the caller disconnects while the generator is suspended at a yield, or
\* has not been started yet: it is closed and runs no further
Cancel(t) ==
    /\ \/ pc[t] = "yielded"
       \/ pc[t] = "stream" /\ chunks[t] = 0 /\ ~gone[t]
    /\ Ended(t, "aborted")
    /\ gone' = [gone EXCEPT ![t] = TRUE]
    /\ Install(heap, SESSIONS, [history EXCEPT ![t] = None])
    /\ UNCHANGED <<program, exported, MAX_TURNS, inp, sent, cliVars, trimVars,
                   codecVars>>

\* the caller disconnects while the generator is running, in the loop of
\* lines 267-271 waiting for the next chunk: a generator is closed only where
\* it is suspended, so it runs on to its next yield
Disconnect(t) ==
    /\ pc[t] = "stream"
    /\ ~gone[t]
    /\ gone' = [gone EXCEPT ![t] = TRUE]
    /\ UNCHANGED <<program, exported, SESSIONS, heap, MAX_TURNS, pc, inp,
                   history, assistant_text, chunks, sent, cliVars, trimVars,
                   codecVars>>

\* sse_stream, lines 267 and 274: the stream is exhausted and the accumulated
\* text is appended as the assistant message
Commit(t) ==
    /\ pc[t] = "stream"
    /\ heap' = [heap EXCEPT ![history[t]] =
                  Append(@, AssistantMsg(assistant_text[t], t))]
    /\ pc' = [pc EXCEPT ![t] = "trim"]
    /\ UNCHANGED <<program, exported, gone, SESSIONS, MAX_TURNS, inp, history,
                   assistant_text, chunks, sent, cliVars, trimVars,
                   codecVars>>

\* sse_stream, lines 277 and 281: if len(history) > max_messages(); when it
\* is not, the end marker is yielded
TrimCheck(t) ==
    /\ pc[t] = "trim"
    /\ IF Len(heap[history[t]]) > max_messages
       THEN /\ pc' = [pc EXCEPT ![t] = "assign"]
            /\ UNCHANGED <<SESSIONS, heap, history, assistant_text, chunks,
                           sent>>
       ELSE /\ Ended(t, "done")
            /\ Install(heap, SESSIONS, [history EXCEPT ![t] = None])
            /\ sent' = [sent EXCEPT ![t] =
                          IF gone[t] THEN @ ELSE Append(@, [done |-> TRUE])]
    /\ UNCHANGED <<program, exported, gone, MAX_TURNS, inp, cliVars, trimVars,
                   codecVars>>

\* sse_stream, lines 278 and 281: a new list, installed under the session id
\* (max_messages() is called again), and the end marker is yielded
TrimAssign(t) ==
    /\ pc[t] = "assign"
    /\ Ended(t, "done")
    /\ Install(Append(heap, TrimmedList(heap[history[t]], max_messages)),
               [SESSIONS EXCEPT ![inp[t].session_id] = Len(heap) + 1],
               [history EXCEPT ![t] = None])
    /\ sent' = [sent EXCEPT ![t] =
                          IF gone[t] THEN @ ELSE Append(@, [done |-> TRUE])]
    /\ UNCHANGED <<program, exported, gone, MAX_TURNS, inp, cliVars, trimVars,
                   codecVars>>

\* Not in the program: the messages in the lists that the requests on a
\* session hold are marked as appended before a clear of that session.
MarkCleared(hp, sid) ==
    LET held == {history[t] : t \in {u \in AllReqs : inp[u].session_id = sid}}
    IN  [i \in 1..Len(hp) |->
            IF i \in held
            THEN [k \in 1..Len(hp[i]) |->
                    IF hp[i][k].role = "system" THEN hp[i][k]
                    ELSE [hp[i][k] EXCEPT !.cleared = TRUE]]
            ELSE hp[i]]

\* a clear that resets every session there is
clear_every_session(sid) ==
    /\ program \in Server
    /\ Install(MarkCleared(heap, sid) \o [i \in 1..2 |-> <<SYSTEM_MSG>>],
               [s \in Sessions |->
                  IF s = sid \/ SESSIONS[s] # None
                  THEN Len(heap) + (IF s = "A" THEN 1 ELSE 2)
                  ELSE None],
               history)
    /\ UNCHANGED <<program, exported, gone, MAX_TURNS, pc, inp,
                   assistant_text, chunks, sent, cliVars, trimVars,
                   codecVars>>

\* clear_memory, lines 291-294
clear_memory(sid) ==
    /\ program \in Server
    /\ Install(Append(MarkCleared(heap, sid), <<SYSTEM_MSG>>),
               [SESSIONS EXCEPT ![sid] = Len(heap) + 1],
               history)
    /\ UNCHANGED <<program, exported, gone, MAX_TURNS, pc, inp,
                   assistant_text, chunks, sent, cliVars, trimVars,
                   codecVars>>

\* a set_memory_size that trims what is stored at once
set_memory_size_and_trim(turns) ==
    /\ program \in Server
    /\ turns >= 1
    /\ MAX_TURNS' = turns
    /\ heap' = [i \in 1..Len(heap) |-> Trim(heap[i], 1 + 2 * turns)]
    /\ UNCHANGED <<program, exported, gone, SESSIONS, pc, inp, history,
                   assistant_text, chunks, sent, cliVars, trimVars,
                   codecVars>>

\* set_memory_size, lines 297-303
set_memory_size(turns) ==
    /\ program \in Server
    /\ IF turns < 1
       THEN MAX_TURNS' = MAX_TURNS
       ELSE MAX_TURNS' = turns
    /\ UNCHANGED <<program, exported, gone, SESSIONS, heap, pc, inp, history,
                   assistant_text, chunks, sent, cliVars, trimVars,
                   codecVars>>

\* an export that creates the session it is asked for
export_json_creating(session_id) ==
    /\ program \in Server
    /\ Len(exported) < MaxExports
    /\ IF SESSIONS[session_id] = None
       THEN Install(Append(heap, <<SYSTEM_MSG>>),
                    [SESSIONS EXCEPT ![session_id] = Len(heap) + 1],
                    history)
       ELSE UNCHANGED <<SESSIONS, heap, history>>
    /\ exported' = Append(exported,
                          [path |-> "/export", session_id |-> session_id,
                           content |-> Clean(Stored(session_id)')])
    /\ UNCHANGED <<program, gone, MAX_TURNS, pc, inp, assistant_text, chunks,
                   sent, cliVars, trimVars, codecVars>>

\* export_json, lines 307-311: SESSIONS.get(session_id, [SYSTEM_MSG.copy()])
export_json(session_id) ==
    /\ program \in Server
    /\ Len(exported) < MaxExports
    /\ LET h == IF SESSIONS[session_id] = None
                THEN <<SYSTEM_MSG>> ELSE heap[SESSIONS[session_id]]
       IN  exported' = Append(exported,
                              [path |-> "/export", session_id |-> session_id,
                               content |-> Clean(h)])
    /\ UNCHANGED <<program, gone, SESSIONS, heap, MAX_TURNS, pc, inp, history,
                   assistant_text, chunks, sent, cliVars, trimVars,
                   codecVars>>

\* export_txt, lines 314-327
export_txt(session_id) ==
    /\ program \in Server
    /\ Len(exported) < MaxExports
    /\ LET h == IF SESSIONS[session_id] = None
                THEN <<SYSTEM_MSG>> ELSE heap[SESSIONS[session_id]]
       IN  exported' = Append(exported,
                              [path |-> "/export_txt", session_id |-> session_id,
                               content |-> TextOf(h)])
    /\ UNCHANGED <<program, gone, SESSIONS, heap, MAX_TURNS, pc, inp, history,
                   assistant_text, chunks, sent, cliVars, trimVars,
                   codecVars>>

WebNext ==
    \/ \E t \in Reqs, s \in Sessions, m \in InputMessages :
            Request(t, [session_id |-> s, message |-> m])
    \/ \E t \in Reqs : CreateSession(t)
    \/ \E t \in Reqs : AppendUser(t)
    \/ \E t \in Reqs : StreamFail(t)
    \/ \E t \in Reqs : \E d \in Deltas(chunks[t] + 1) : NextChunk(t, d)
    \/ \E t \in Reqs : Resume(t)
    \/ \E t \in Reqs : \E d \in Deltas(chunks[t] + 1) : LostChunk(t, d)
    \/ \E t \in Reqs : Cancel(t)
    \/ \E t \in Reqs : Disconnect(t)
    \/ \E t \in Reqs : Commit(t)
    \/ \E t \in Reqs : TrimCheck(t)
    \/ \E t \in Reqs : TrimAssign(t)
    \/ \E s \in Sessions : clear_memory(s)
    \/ \E n \in TurnsInputs : set_memory_size(n)

\* ------------------------------------------------------------- chat.py
\* A line typed at the prompt is a command with its arguments or a chat text.
\* An argument of :memory is a number; a negative number stands for a word
\* that str.isdigit() refuses.
MemoryArgs == { <<>>, <<0 - 1>>, <<1, 1>> } \cup { <<n>> : n \in 0..MaxTurnsIn }
isdigit(n) == n >= 0

\* main, lines 89-92: messages = [messages[0]]
CliClear ==
    /\ program = "cli"
    /\ cli = "prompt"
    /\ cliLine < MaxLines
    /\ cliLine' = cliLine + 1
    /\ user' = [cmd |-> ":clear"]
    /\ messages' = <<messages[1]>>
    /\ UNCHANGED <<program, webVars, file, jsonFile, MAX_MESSAGES, cli,
                   cliText, cliChunks, printed, trimVars, codecVars>>

\* main, lines 94-101: parts = user.split(); one argument made of digits
\* sets the limit
CliMemory(args) ==
    /\ program = "cli"
    /\ cli = "prompt"
    /\ cliLine < MaxLines
    /\ cliLine' = cliLine + 1
    /\ user' = [cmd |-> ":memory", args |-> args]
    /\ IF Len(args) = 1 /\ isdigit(args[1])
       THEN MAX_MESSAGES' = 1 + args[1] * 2
       ELSE MAX_MESSAGES' = MAX_MESSAGES
    /\ UNCHANGED <<program, webVars, file, jsonFile, messages, cli, cliText,
                   cliChunks, printed, trimVars, codecVars>>

\* main, lines 84-86: quit or exit
CliQuit ==
    /\ program = "cli"
    /\ cli = "prompt"
    /\ cliLine < MaxLines
    /\ cliLine' = cliLine + 1
    /\ user' = [cmd |-> "quit"]
    /\ cli' = "exit"
    /\ UNCHANGED <<program, webVars, file, jsonFile, messages, MAX_MESSAGES,
                   cliText, cliChunks, printed, trimVars, codecVars>>

\* main, lines 140-150: any other line is appended as the user message and the
\* completion request is made
CliChat(text) ==
    /\ program = "cli"
    /\ cli = "prompt"
    /\ cliLine < MaxLines
    /\ cliLine' = cliLine + 1
    /\ user' = [cmd |-> "chat", text |-> text]
    /\ messages' = Append(messages, UserMsg(text, cliLine + 1))
    /\ cli' = "stream"
    /\ cliText' = <<>>
    /\ cliChunks' = 0
    /\ printed' = <<>>
    /\ UNCHANGED <<program, webVars, file, jsonFile, MAX_MESSAGES, trimVars,
                   codecVars>>

\* main, lines 142-152: the completion service raises, when the request is
\* made or while the stream is read; nothing catches it and the program ends
CliStreamFail ==
    /\ cli = "stream"
    /\ cli' = "exit"
    /\ UNCHANGED <<program, webVars, file, jsonFile, messages, MAX_MESSAGES,
                   user, cliText, cliChunks, cliLine, printed, trimVars,
                   codecVars>>

\* main, lines 151-155: one chunk; a non-empty delta is accumulated and printed
CliChunk(delta) ==
    /\ cli = "stream"
    /\ cliChunks < ChunkLimit
    /\ cliChunks' = cliChunks + 1
    /\ IF delta # <<>>
       THEN /\ cliText' = cliText \o delta
            /\ printed' = Append(printed, delta)
       ELSE UNCHANGED <<cliText, printed>>
    /\ UNCHANGED <<program, webVars, file, jsonFile, messages, MAX_MESSAGES,
                   cli, user, cliLine, trimVars, codecVars>>

\* main, lines 151 and 158-161: the stream is exhausted, the accumulated text
\* is appended as the assistant message and the conversation is trimmed
CliCommit ==
    /\ cli = "stream"
    /\ messages' = Trim(Append(messages, AssistantMsg(cliText, cliLine)),
                        MAX_MESSAGES)
    /\ cli' = "prompt"
    /\ cliText' = <<>>
    /\ cliChunks' = 0
    /\ UNCHANGED <<program, webVars, file, jsonFile, MAX_MESSAGES, user,
                   cliLine, printed, trimVars, codecVars>>

\* main, lines 103-111: the transcript is written to the file; an exception
\* (the file cannot be written) is caught and reported
CliSave(ok) ==
    /\ program = "cli"
    /\ cli = "prompt"
    /\ cliLine < MaxLines
    /\ cliLine' = cliLine + 1
    /\ user' = [cmd |-> ":save", ok |-> ok]
    /\ file' = IF ok THEN FileOf(TextOf(messages)) ELSE file
    /\ UNCHANGED <<program, webVars, jsonFile, messages, MAX_MESSAGES, cli,
                   cliText, cliChunks, printed, trimVars, codecVars>>

\* main, lines 113-127: without a file name the usage is printed; a missing
\* file raises FileNotFoundError, which is caught; otherwise the loaded
\* conversation, trimmed to the limit, replaces messages
CliLoad(named) ==
    /\ program = "cli"
    /\ cli = "prompt"
    /\ cliLine < MaxLines
    /\ cliLine' = cliLine + 1
    /\ user' = [cmd |-> ":load", named |-> named]
    /\ IF named /\ file.exists
       THEN messages' = Trim(load_transcript(file.holds), MAX_MESSAGES)
       ELSE messages' = messages
    /\ UNCHANGED <<program, webVars, file, jsonFile, MAX_MESSAGES, cli,
                   cliText, cliChunks, printed, trimVars, codecVars>>

\* main, lines 129-137, and export_json, lines 61-62: the messages are
\* written as JSON
CliExportJson ==
    /\ program = "cli"
    /\ cli = "prompt"
    /\ cliLine < MaxLines
    /\ cliLine' = cliLine + 1
    /\ user' = [cmd |-> ":export json"]
    /\ jsonFile' = FileOf(Clean(messages))
    /\ UNCHANGED <<program, webVars, file, messages, MAX_MESSAGES, cli,
                   cliText, cliChunks, printed, trimVars, codecVars>>

CliNext ==
    \/ CliClear
    \/ \E a \in MemoryArgs : CliMemory(a)
    \/ \E ok \in BOOLEAN : CliSave(ok)
    \/ \E named \in BOOLEAN : CliLoad(named)
    \/ CliExportJson
    \/ CliQuit
    \/ \E m \in InputMessages : CliChat(m)
    \/ CliStreamFail
    \/ \E d \in Deltas(cliChunks + 1) : CliChunk(d)
    \/ CliCommit

Next == WebNext \/ CliNext

Spec == Init /\ [][Next]_vars

\* ------------------------------------------------------------- one at a time
\* The server with a fixed capacity and callers that send a request when the
\* request before it has ended, and the command-line loop.
SerialMessages == { <<" ", "h">> }

SerialInit ==
    /\ program \in {"serial", "cli"}
    /\ InitServer
    /\ MAX_TURNS \in (IF program = "serial" THEN 1..MaxTurnsIn ELSE {DefaultMaxTurns})
    /\ InitCli
    /\ InitTrim
    /\ InitCodec

\* the connection of a request that has ended is closed and forgotten
Forget(t) ==
    /\ program = "serial"
    /\ pc[t] \in {"rejected", "aborted", "done"}
    /\ pc' = [pc EXCEPT ![t] = "over"]
    /\ inp' = [inp EXCEPT ![t] = NoInput]
    /\ sent' = [sent EXCEPT ![t] = <<>>]
    /\ gone' = [gone EXCEPT ![t] = FALSE]
    /\ UNCHANGED <<program, exported, SESSIONS, heap, MAX_TURNS, history,
                   assistant_text, chunks, cliVars, trimVars, codecVars>>

\* a POST /chat that arrives when the requests before it are over
SerialRequest(t, body) ==
    /\ \A u \in AllReqs : pc[u] \in {"idle", "over"}
    /\ Request(t, body)

SerialNext ==
    \/ \E t \in SerialReqs, s \in Sessions, m \in SerialMessages :
            SerialRequest(t, [session_id |-> s, message |-> m])
    \/ \E t \in SerialReqs : CreateSession(t)
    \/ \E t \in SerialReqs : AppendUser(t)
    \/ \E t \in SerialReqs : StreamFail(t)
    \/ \E t \in SerialReqs : \E d \in Deltas(chunks[t] + 1) : NextChunk(t, d)
    \/ \E t \in SerialReqs : Resume(t)
    \/ \E t \in SerialReqs : \E d \in Deltas(chunks[t] + 1) : LostChunk(t, d)
    \/ \E t \in SerialReqs : Cancel(t)
    \/ \E t \in SerialReqs : Disconnect(t)
    \/ \E t \in SerialReqs : Commit(t)
    \/ \E t \in SerialReqs : TrimCheck(t)
    \/ \E t \in SerialReqs : TrimAssign(t)
    \/ \E t \in SerialReqs : Forget(t)
    \/ \E s \in Sessions : clear_memory(s)
    \/ CliNext

SpecSerial == SerialInit /\ [][SerialNext]_vars

\* ------------------------------------------------------------- exports
\* The server with a few requests, one at a time, clears, and the export
\* requests.
ExportInit ==
    /\ program = "serial"
    /\ SerialInit

ExportNext ==
    \/ \E t \in Reqs, s \in Sessions, m \in SerialMessages :
            SerialRequest(t, [session_id |-> s, message |-> m])
    \/ \E t \in Reqs : CreateSession(t)
    \/ \E t \in Reqs : AppendUser(t)
    \/ \E t \in Reqs : StreamFail(t)
    \/ \E t \in Reqs : \E d \in Deltas(chunks[t] + 1) : NextChunk(t, d)
    \/ \E t \in Reqs : Resume(t)
    \/ \E t \in Reqs : Commit(t)
    \/ \E t \in Reqs : TrimCheck(t)
    \/ \E t \in Reqs : TrimAssign(t)
    \/ \E t \in Reqs : Forget(t)
    \/ \E s \in Sessions : clear_memory(s)
    \/ \E s \in Sessions : export_json(s)
    \/ \E s \in Sessions : export_txt(s)

SpecExport == ExportInit /\ [][ExportNext]_vars

\* ------------------------------------------------------------- claims
Range(q) == {q[i] : i \in 1..Len(q)}
Last(q) == q[Len(q)]

\* the user message is appended and the turn has neither finished nor aborted
InTurn(t) == pc[t] \in {"stream", "yielded", "trim", "assign"}
\* request t holds a reference to a list
Holding(t) == pc[t] \in {"append", "stream", "yielded", "trim", "assign"}
\* request t takes a step
Steps(t) == pc'[t] # pc[t] \/ chunks'[t] # chunks[t] \/ gone'[t] # gone[t]

\* C1: two turns on one session never interleave: between a turn's user
\* append and its end (commit and trim, or abort) no other turn on that
\* session has its user message appended.
C1_TurnsSerialized ==
    \A t, u \in Reqs :
        (t # u /\ InTurn(t) /\ InTurn(u)) => inp[t].session_id # inp[u].session_id

\* C2: get_or_create is atomic: a first touch that installs its list while
\* another turn works on the conversation stored for that session leaves both
\* turns on one and the same conversation, the stored one.
C2_OneConversation ==
    [][\A t, u \in Reqs :
          (/\ t # u
           /\ pc[t] = "create" /\ pc'[t] = "append"
           /\ inp[u].session_id = inp[t].session_id
           /\ Holding(u) /\ history[u] = SESSIONS[inp[t].session_id])
          => /\ history'[t] = history'[u]
             /\ Stored(inp[t].session_id)' = Stored(inp[t].session_id)]_vars

\* C3: every stored conversation is non-empty, starts with a system message
\* and holds no other system message.
SystemFirstOnly(c) ==
    /\ c # <<>>
    /\ c[1].role = "system"
    /\ \A i \in 2..Len(c) : c[i].role # "system"

C3_SystemAnchored ==
    /\ \A s \in Sessions : SESSIONS[s] # None => SystemFirstOnly(Stored(s))
    /\ SystemFirstOnly(messages)

\* C4: the trim of C at capacity N >= 1 has at most 1+2N messages; it is C when
\* C has at most 1+2N messages, and otherwise C[0] followed by the last 2N
\* messages of C in their order.
C4_Window ==
    trimmed =>
        LET n == Len(trimIn)
            w == 2 * trimCap
        IN  /\ Len(trimOut) <= 1 + w
            /\ n <= 1 + w => trimOut = trimIn
            /\ n > 1 + w =>
                 /\ Len(trimOut) = 1 + w
                 /\ trimOut[1] = trimIn[1]
                 /\ \A i \in 1..w : trimOut[1 + i] = trimIn[n - w + i]

C4_Witness == trimmed /\ Len(trimIn) > 1 + 2 * trimCap /\ trimCap = MaxCap

\* C5: when a turn emits the end marker, the conversation stored under its
\* session id ends with the turn's assistant message.
C5_DoneAfterCommit ==
    [][\A t \in Reqs :
          (pc[t] # "done" /\ pc'[t] = "done")
          => LET c == Stored(inp[t].session_id)'
             IN  /\ c # <<>>
                 /\ Last(c).role = "assistant"
                 /\ Last(c).turn = t]_vars

\* C6: a turn that failed or whose caller disconnected before the stream
\* completed never commits an assistant message and is sent no end marker.
C6_AbortedNeverCommits ==
    \A t \in Reqs :
        (pc[t] = "aborted" \/ gone[t]) =>
            /\ \A i \in 1..Len(heap) :
                  \A m \in Range(heap[i]) : ~(m.role = "assistant" /\ m.turn = t)
            /\ [done |-> TRUE] \notin Range(sent[t])

\* C7: a turn whose message is empty once stripped is rejected and mutates
\* nothing: no session is created, no message appended, no completion asked.
C7_EmptyRejected ==
    [][/\ \A t \in Reqs :
            (pc[t] = "idle" /\ pc'[t] # "idle" /\ Strip(inp'[t].message) = <<>>)
            => /\ pc'[t] = "rejected"
               /\ sent'[t] = <<[status |-> 400]>>
               /\ UNCHANGED <<SESSIONS, heap>>
       /\ (cliLine' # cliLine /\ user'.cmd = "chat" /\ Strip(user'.text) = <<>>)
            => /\ messages' = messages
               /\ cli' = "prompt"]_vars

\* C8: a capacity below 1 is refused and the capacity stays as it was, so the
\* capacity a trim consults is always at least 1 (at least 3 messages).
C8_CapacityAtLeastOne ==
    /\ MAX_TURNS >= 1
    /\ max_messages >= 3
    /\ MAX_MESSAGES >= 3

\* C9: setting the capacity changes no stored conversation and no session,
\* also when what is stored exceeds the new capacity.
C9_CapacityChangeOnly ==
    [][/\ MAX_TURNS' # MAX_TURNS => UNCHANGED <<SESSIONS, heap>>
       /\ MAX_MESSAGES' # MAX_MESSAGES => messages' = messages]_vars

C9_Witness ==
    /\ program \in Server
    /\ \A t \in Reqs : pc[t] \in {"done", "aborted"}
    /\ \E s \in Sessions : Len(Stored(s)) > max_messages

\* C10: no step of a turn on session A and no clear of A changes the
\* conversation stored for another session B.
C10_SessionIsolation ==
    [][/\ \A t \in Reqs : \A b \in Sessions :
            (Steps(t) /\ b # inp'[t].session_id)
            => /\ Stored(b)' = Stored(b)
               /\ (SESSIONS'[b] = None) = (SESSIONS[b] = None)
       /\ \A a, b \in Sessions :
            (a # b /\ Stored(a)' # Stored(a)) => Stored(b)' = Stored(b)]_vars

C10_Witness ==
    \E t, u \in Reqs :
        /\ inp[t].session_id # inp[u].session_id
        /\ pc[t] = "done" /\ InTurn(u)
        /\ Len(Stored(inp[t].session_id)) = 3
        /\ Len(Stored(inp[u].session_id)) = 2

\* C11: a clear always succeeds and leaves the conversation of its session
\* equal to exactly the default system message, whether or not the session
\* existed and whatever it held; a second clear changes nothing more.
WebClearStep ==
    /\ program \in Server
    /\ \A t \in Reqs : ~Steps(t)
    /\ MAX_TURNS' = MAX_TURNS
    /\ <<SESSIONS, heap>>' # <<SESSIONS, heap>>

CliClearStep == cliLine' # cliLine /\ user'.cmd = ":clear"

C11_ClearResets ==
    [][/\ WebClearStep =>
            \E s \in Sessions :
                /\ SESSIONS'[s] # None
                /\ Stored(s)' = <<SYSTEM_MSG>>
                /\ \A b \in Sessions \ {s} : Stored(b)' = Stored(b)
       /\ CliClearStep =>
            /\ Clean(messages') = Clean(<<SYSTEM_MSG>>)
            /\ cli' = "prompt"]_vars

\* C12: an export changes no stored conversation and creates no session; for
\* a session that does not exist it returns the rendering of a conversation
\* holding only the default system message, and the session still does not
\* exist afterwards.
C12_ExportReadOnly ==
    [][exported' # exported =>
          LET r == Last(exported')
              s == r.session_id
              c == IF SESSIONS[s] = None THEN <<SYSTEM_MSG>> ELSE Stored(s)
          IN  /\ UNCHANGED <<SESSIONS, heap>>
              /\ \A b \in Sessions : Stored(b)' = Stored(b)
              /\ SESSIONS'[s] = None <=> SESSIONS[s] = None
              /\ r.path = "/export" => r.content = Clean(c)
              /\ r.path = "/export_txt" => r.content = TextOf(c)]_vars

C12_Witness ==
    /\ exported # <<>>
    /\ SESSIONS[Last(exported).session_id] = None
    /\ Last(exported).content \in {Clean(<<SYSTEM_MSG>>), TextOf(<<SYSTEM_MSG>>)}
    /\ \E b \in Sessions : Len(Stored(b)) >= 3

\* C15: within a turn the delta frames sent to the caller are the non-empty
\* fragments of the stream in the order produced, each sent before the next
\* chunk is asked for, and the assistant message committed at the end holds
\* their concatenation.
DeltasIn(frames) ==
    LET ds == SelectSeq(frames, LAMBDA f : "delta" \in DOMAIN f)
    IN  [i \in 1..Len(ds) |-> ds[i].delta]

FragmentIndex(d) == CHOOSE k \in 1..Len(Fragments) : d = <<Fragments[k]>>

InOrder(ds) ==
    \A i, j \in 1..Len(ds) : i < j => FragmentIndex(ds[i]) < FragmentIndex(ds[j])

C15_FragmentsInOrder ==
    [][/\ \A t \in AllReqs :
            /\ InOrder(DeltasIn(sent'[t]))
            /\ pc'[t] \in {"stream", "yielded"} =>
                  Flatten(DeltasIn(sent'[t])) = assistant_text'[t]
            /\ chunks'[t] = chunks[t] + 1 =>
                  /\ pc[t] = "stream"
                  /\ sent'[t] # sent[t] =>
                        /\ sent'[t] = Append(sent[t],
                                             [delta |-> <<Fragments[chunks'[t]]>>])
                        /\ pc'[t] = "yielded"
            /\ (pc[t] = "stream" /\ pc'[t] = "trim") =>
                  Last(heap'[history'[t]]) =
                      AssistantMsg(Flatten(DeltasIn(sent[t])), t)
       /\ InOrder(printed')
       /\ cli' = "stream" => Flatten(printed') = cliText'
       /\ cliChunks' = cliChunks + 1 =>
             printed' \in {printed, Append(printed, <<Fragments[cliChunks']>>)}
       /\ (cli = "stream" /\ cli' = "prompt") =>
             /\ Last(messages').role = "assistant"
             /\ Last(messages').content = Flatten(printed)]_vars

C15_Witness ==
    \E t \in AllReqs :
        /\ pc[t] = "done"
        /\ sent[t] = <<[delta |-> <<Fragments[1]>>], [delta |-> <<Fragments[2]>>],
                       [done |-> TRUE]>>
        /\ Last(Stored(inp[t].session_id)) =
               AssistantMsg(<<Fragments[1], Fragments[2]>>, t)

\* C16: with the capacity at N, a turn that completes normally on the
\* conversation of its session leaves it with at most 1+2N messages: the
\* system message, then the most recent ones, the last two being the turn's
\* user message and its assistant message.
C16_WindowAfterTurn ==
    [][\A t \in AllReqs :
          (/\ pc[t] # "done" /\ pc'[t] = "done"
           /\ history[t] = SESSIONS[inp[t].session_id])
          => LET c == Stored(inp[t].session_id)'
                 h == heap[history[t]]
                 n == Len(c)
             IN  /\ n <= 1 + 2 * MAX_TURNS
                 /\ n >= 3
                 /\ c[1] = SYSTEM_MSG
                 /\ \A i \in 2..n : c[i] = h[Len(h) - n + i]
                 /\ c[n - 1] = UserMsg(Strip(inp[t].message), t)
                 /\ c[n] = AssistantMsg(assistant_text[t], t)]_vars

\* C17: once a clear of a session is done, no message appended to that session
\* before it is in the conversation stored under that session again, also when
\* a turn on the session was in flight at the clear and commits and trims
\* afterwards.
C17_ClearedStaysCleared ==
    \A s \in Sessions : \A m \in Range(Stored(s)) : ~m.cleared

\* C18 as stated: with the capacity fixed at N and the turns one at a time, a
\* stored conversation never holds more than 1+2N+1 messages.
C18_WindowPlusOne ==
    program = "serial" =>
        \A s \in Sessions : Len(Stored(s)) <= 1 + 2 * MAX_TURNS + 1

\* the messages of a conversation appended since the last turn in it that has
\* completed (its assistant message is there and its trim is over)
SinceCompleted(c) ==
    LET over == {c[i].turn : i \in {j \in 1..Len(c) :
                                      /\ c[j].role = "assistant"
                                      /\ pc[c[j].turn] \notin {"trim", "assign"}}}
    IN  Cardinality({i \in 2..Len(c) : \A t \in over : c[i].turn > t})

\* C18: with the capacity fixed at N and the turns one at a time, a stored
\* conversation never holds more than 1+2N messages besides those appended
\* since the last turn that completed: the user message of every turn that
\* failed or was cancelled since, and the messages of the turn in flight.
C18_WindowPlusPending ==
    program = "serial" =>
        \A s \in Sessions :
            SESSIONS[s] # None =>
                Len(Stored(s)) <= 1 + 2 * MAX_TURNS + SinceCompleted(Stored(s))

C18_Witness ==
    /\ program = "serial"
    /\ \E s \in Sessions :
          /\ Len(Stored(s)) > 1 + 2 * MAX_TURNS + 1
          /\ \A i \in 2..Len(Stored(s)) : Stored(s)[i].role = "user"
    /\ \A t \in AllReqs : pc[t] \notin Running

\* ------------------------------------------------------------- the trim alone
\* conversations of every length up to MaxConvLen, of messages of any role
Conversations ==
    UNION { { [i \in 1..n |-> Msg(r[i], <<"h">>, i)] :
                r \in [1..n -> Roles] } : n \in 0..MaxConvLen }

TrimInit ==
    /\ program = "trim"
    /\ InitWeb
    /\ InitCli
    /\ InitCodec
    /\ trimIn \in Conversations
    /\ trimCap \in 1..MaxCap
    /\ trimOut = <<>>
    /\ trimmed = FALSE

\* web.py, lines 24-25 and 277-278; chat.py, lines 160-161
ApplyTrim ==
    /\ program = "trim"
    /\ ~trimmed
    /\ trimOut' = Trim(trimIn, 1 + 2 * trimCap)
    /\ trimmed' = TRUE
    /\ UNCHANGED <<program, webVars, cliVars, trimIn, trimCap, codecVars>>

TrimNext == ApplyTrim

SpecTrim == TrimInit /\ [][TrimNext]_vars

\* ------------------------------------------------------------- the codec alone
\* the contents of the messages that are saved
CodecAlphabet == {"h", ":", " ", "\n", "\r"}
Contents == UNION { [1..n -> CodecAlphabet] : n \in 1..MaxContentLen }

\* conversations that start with a system message: of two messages with any
\* content, and of three with short contents
CodecConversations ==
    LET sys(c) == LoadedMsg("system", c)
        short == { <<"h">>, <<":">> }
    IN  { <<sys(c)>> : c \in Contents }
        \cup { <<sys(SystemText), LoadedMsg(r, c)>> : r \in Roles, c \in Contents }
        \cup { <<sys(SystemText), LoadedMsg(r1, c1), LoadedMsg(r2, c2)>> :
                  r1 \in Roles, r2 \in Roles, c1 \in short, c2 \in short }

\* the texts that are loaded: any sequence of a few of these pieces
Tokens ==
    { Upper(RoleChars("user")) \o <<":">>,
      <<"S">> \o SubSeq(RoleChars("system"), 2, 6) \o <<":", " ">>,
      <<"b", "o", "t", ":">>,
      <<"h">>, <<":">>, <<" ">>, <<"\n">>, <<"\n", "\n">> }

Texts == { Flatten(ts) : ts \in UNION { [1..n -> Tokens] : n \in 0..MaxTokens } }

CodecInit ==
    /\ program = "codec"
    /\ InitWeb
    /\ InitCli
    /\ InitTrim
    /\ codecOut = <<>>
    /\ \/ /\ codecStage = "conversation"
          /\ codecIn \in CodecConversations
          /\ codecText = <<>>
       \/ /\ codecStage = "text"
          /\ codecIn = <<>>
          /\ codecText \in Texts

\* save_transcript, lines 18-25
SaveTranscript ==
    /\ program = "codec"
    /\ codecStage = "conversation"
    /\ codecText' = TextOf(codecIn)
    /\ codecStage' = "text"
    /\ UNCHANGED <<program, webVars, cliVars, trimVars, codecIn, codecOut>>

\* load_transcript, lines 35-51
LoadTranscript ==
    /\ program = "codec"
    /\ codecStage = "text"
    /\ codecOut' = load_transcript(codecText)
    /\ codecStage' = "loaded"
    /\ UNCHANGED <<program, webVars, cliVars, trimVars, codecIn, codecText>>

CodecNext == SaveTranscript \/ LoadTranscript

SpecCodec == CodecInit /\ [][CodecNext]_vars

\* the saved conversation comes back as the same list of role/content pairs
RoundTrips == Clean(codecOut) = Clean(codecIn)

\* a content that the text format carries as it is: no white space at its
\* ends, no carriage return and no blank line inside
Plain(c) == Strip(c) = c /\ RemoveCR(c) = c /\ FirstBlank(c) = 0

\* C13 as stated: a conversation that starts with a system message and whose
\* messages have a known role and non-empty content is loaded back from its
\* saved text as the same ordered list of role/content pairs.
C13_RoundTripOfAny ==
    (codecStage = "loaded" /\ codecIn # <<>>) => RoundTrips

\* C13: a conversation that starts with a system message and whose messages
\* have a known role and a non-empty content without white space at its ends,
\* without carriage return and without blank line is loaded back from its
\* saved text as the same ordered list of role/content pairs.
C13_RoundTrip ==
    (/\ codecStage = "loaded"
     /\ codecIn # <<>>
     /\ \A i \in 1..Len(codecIn) : Plain(codecIn[i].content))
    => RoundTrips

C13_Witness ==
    /\ codecStage = "loaded"
    /\ Len(codecIn) = 2
    /\ codecIn[2].role = "assistant"
    /\ Plain(codecIn[2].content)
    /\ Len(codecIn[2].content) = MaxContentLen
    /\ {":", "\n", " "} \subseteq Range(codecIn[2].content)
    /\ RoundTrips

\* C14: loading any text gives a non-empty conversation that starts with a
\* system message and holds known roles only; the chunks without ":", with an
\* unknown role or without content are dropped, and the default system message
\* is put first when the kept chunks are none or do not start with a system
\* message.
RoleOf(chunk) ==
    LET k == CHOOSE k \in 1..Len(chunk) :
                 chunk[k] = ":" /\ \A j \in 1..(k - 1) : chunk[j] # ":"
    IN  Lower(Strip(SubSeq(chunk, 1, k - 1)))

ContentOf(chunk) ==
    LET k == CHOOSE k \in 1..Len(chunk) :
                 chunk[k] = ":" /\ \A j \in 1..(k - 1) : chunk[j] # ":"
    IN  Strip(SubSeq(chunk, k + 1, Len(chunk)))

WellFormed(chunk) ==
    /\ ":" \in Range(chunk)
    /\ RoleOf(chunk) \in {RoleChars(r) : r \in Roles}
    /\ ContentOf(chunk) # <<>>

C14_LoadTotal ==
    codecStage = "loaded" =>
        LET kept == SelectSeq(SplitBlank(codecText), WellFormed)
            n == Len(kept)
            first == n = 0 \/ RoleOf(kept[1]) # RoleChars("system")
            out == IF first THEN Tail(codecOut) ELSE codecOut
        IN  /\ codecOut # <<>>
            /\ codecOut[1].role = "system"
            /\ \A i \in 1..Len(codecOut) : codecOut[i].role \in Roles
            /\ first => Clean(<<codecOut[1]>>) = Clean(<<SYSTEM_MSG>>)
            /\ Len(out) = n
            /\ \A i \in 1..n :
                  /\ RoleChars(out[i].role) = RoleOf(kept[i])
                  /\ out[i].content = ContentOf(kept[i])

C14_Witness ==
    /\ codecStage = "loaded"
    /\ codecIn = <<>>
    /\ \E chunk \in Range(SplitBlank(codecText)) :
          Strip(chunk) # <<>> /\ ~WellFormed(chunk)
    /\ Len(codecOut) = 2
    /\ codecOut[2].role = "user"

====
